---- MODULE Spec2Model ----
(***************************************************************************)
(* Model of letterboxd_streaming.py: the coordinator (main), the pool of   *)
(* scrape_film_worker tasks, the in-memory cache and the cache file.       *)
(*                                                                         *)
(* Strings whose content the code inspects (the availability strings) are  *)
(* sequences of words, so that str.startswith is a prefix test.            *)
(***************************************************************************)
EXTENDS FiniteSets, Integers, Sequences, TLC

VARIABLES
    file,       \* the cache file: [exists, text], text a sequence of JSON tokens
    cache,      \* main's `cache` object, shared with every worker
    startup,    \* history: the mapping load_cache returned (entries only)
    persisted,  \* history: the mapping of the last save_cache that completed
    pc,         \* position of the coordinator (main)
    driver,     \* main's driver: "none", "live", "quit", "quit_failed"
    films,      \* the list scrape_letterboxd_popular returned
    task,       \* per ordinal: the future and the worker running it
    results,    \* main's `results` list
    report,     \* the sorted list the report prints
    exit,       \* how main ended: "none", "load_raised", "no_driver", "no_films", "discover_raised", "reported"
    readers,    \* history: which threads have read the cache object
    updating,   \* the threads now between a cache write and the end of its save_cache, in order of entry
    warnings    \* the warnings printed so far, in order

vars == <<file, cache, startup, persisted, pc, driver, films, task, results,
          report, exit, readers, updating, warnings>>

(***************************************************************************)
(* Bounds and inputs                                                       *)
(***************************************************************************)
MaxFilms == 2

PoolFilms == 4

LiveFilms == 2

max_workers == 3

FilmA == [title |-> "A", url |-> "u1"]
FilmB == [title |-> "B", url |-> "u2"]
FilmSet == {FilmA, FilmB}

Urls == {f.url : f \in FilmSet}

\* Availability strings, as words.
Netflix == <<"Netflix">>
Mubi == <<"Mubi">>
NoInfo == <<"No", "streaming", "info", "available">>
ErrTimeout == <<"Error:", "timeout">>
ErrNoDriver == <<"Error:", "Could", "not", "create", "driver">>
EmptyStr == <<>>

\* What scrape_streaming_info can return: a service list, an empty join,
\* the no-info message, or the text of a caught exception.
ScrapeOutcomes == {Netflix, EmptyStr, NoInfo, ErrTimeout}

\* str(e) of the exceptions a task or the coordinator can raise.
KeyErrorMsg == <<"'streaming'">>
TypeErrorMsg == <<"TypeError">>
QuitErrorMsg == <<"quit", "failed">>

StartsWith(s, p) == Len(s) >= Len(p) /\ SubSeq(s, 1, Len(p)) = p

IsError(s) == StartsWith(s, <<"Error:">>)

(***************************************************************************)
(* The cache object and its JSON form                                      *)
(***************************************************************************)
EmptyMap == [u \in {} |-> [title |-> "A"]]

Unloaded == [kind |-> "unloaded"]
DictCache(m) == [kind |-> "dict", map |-> m]
ListCache(items) == [kind |-> "list", items |-> items]

\* The entries of a cache object (a JSON array has none).
Entries(c) == IF c.kind = "dict" THEN c.map ELSE EmptyMap

\* `key in cache`
Contains(c, key) ==
    IF c.kind = "dict" THEN key \in DOMAIN c.map
    ELSE \E i \in 1..Len(c.items) : c.items[i] = key

\* An assignment that rebuilds the mapping from the new entry alone.
PutAlone(m, key, entry) == [u \in {key} |-> entry]

\* cache[key] = entry, on a dict
Put(m, key, entry) ==
    [u \in DOMAIN m \cup {key} |-> IF u = key THEN entry ELSE m[u]]

RECURSIVE KeySeq(_)
KeySeq(S) ==
    IF S = {} THEN <<>>
    ELSE LET k == CHOOSE k \in S : TRUE IN <<k>> \o KeySeq(S \ {k})

Tok(t) == [t |-> t]

\* A dump that stops after the first key.
JsonDumpFirstKey(c) ==
    IF c.kind = "dict"
    THEN LET ks == KeySeq(DOMAIN c.map)
         IN <<Tok("{")>>
            \o [i \in 1..(IF Len(ks) > 1 THEN 1 ELSE Len(ks)) |->
                  [t |-> "pair", key |-> ks[i], val |-> c.map[ks[i]]]]
            \o <<Tok("}")>>
    ELSE <<Tok("[")>>
         \o [i \in 1..Len(c.items) |-> [t |-> "str", s |-> c.items[i]]]
         \o <<Tok("]")>>

\* json.dump(cache, f): the tokens written, in order.
JsonDump(c) ==
    IF c.kind = "dict"
    THEN LET ks == KeySeq(DOMAIN c.map)
         IN <<Tok("{")>>
            \o [i \in 1..Len(ks) |-> [t |-> "pair", key |-> ks[i], val |-> c.map[ks[i]]]]
            \o <<Tok("}")>>
    ELSE <<Tok("[")>>
         \o [i \in 1..Len(c.items) |-> [t |-> "str", s |-> c.items[i]]]
         \o <<Tok("]")>>

Inner(text) == SubSeq(text, 2, Len(text) - 1)

IsJsonObject(text) ==
    /\ Len(text) >= 2
    /\ text[1] = Tok("{")
    /\ text[Len(text)] = Tok("}")
    /\ \A i \in 2..(Len(text) - 1) : text[i].t = "pair"

IsJsonArray(text) ==
    /\ Len(text) >= 2
    /\ text[1] = Tok("[")
    /\ text[Len(text)] = Tok("]")
    /\ \A i \in 2..(Len(text) - 1) : text[i].t = "str"

\* json.load(f): the value, or a JSONDecodeError.
JsonLoad(text) ==
    IF IsJsonObject(text)
    THEN LET ps == Inner(text)
             last(k) == CHOOSE i \in 1..Len(ps) :
                          /\ ps[i].key = k
                          /\ \A j \in (i + 1)..Len(ps) : ps[j].key # k
         IN [ok |-> TRUE,
             value |-> DictCache([k \in {ps[i].key : i \in 1..Len(ps)} |-> ps[last(k)].val])]
    ELSE IF IsJsonArray(text)
    THEN LET ps == Inner(text)
         IN [ok |-> TRUE, value |-> ListCache([i \in 1..Len(ps) |-> ps[i].s])]
    ELSE [ok |-> FALSE]

\* json.load reads and decodes the whole file before it parses: bytes that
\* are not text in the locale's encoding raise UnicodeDecodeError, which is
\* neither a JSONDecodeError nor an IOError.
LoadRaises(f) == f.exists /\ \E k \in 1..Len(f.text) : f.text[k] = Tok("badbytes")

\* load_cache(), when it returns
load_cache(f) ==
    IF f.exists
    THEN IF JsonLoad(f.text).ok THEN JsonLoad(f.text).value ELSE DictCache(EmptyMap)
    ELSE DictCache(EmptyMap)

Missing == [exists |-> FALSE, text |-> <<>>]
FileOf(text) == [exists |-> TRUE, text |-> text]

StaleEntry == [title |-> "A", streaming |-> Mubi]
IncompleteEntry == [title |-> "A"]

\* The cache files a run can find at startup.
InitialFiles ==
    { Missing,
      FileOf(JsonDump(DictCache(EmptyMap))),
      FileOf(JsonDump(DictCache(Put(EmptyMap, "u1", StaleEntry)))),
      FileOf(JsonDump(DictCache(Put(EmptyMap, "u1", IncompleteEntry)))),
      FileOf(JsonDump(ListCache(<<>>))),
      FileOf(JsonDump(ListCache(<<"u1">>))),
      FileOf(<<Tok("garbage")>>),
      FileOf(<<Tok("badbytes")>>) }

(***************************************************************************)
(* Results                                                                 *)
(***************************************************************************)
Result(i, film, streaming, cached) ==
    [index |-> i, title |-> film.title, url |-> film.url,
     streaming |-> streaming, cached |-> cached]

\* The result the coordinator builds in its except branch.
ErrorResult(i, film, msg) == Result(i, film, <<"Error:">> \o msg, FALSE)

NoOutcome == [kind |-> "none"]
Returned(r) == [kind |-> "value", val |-> r]
Raised(msg) == [kind |-> "exc", msg |-> msg]

NewTask == [pc |-> "new", hit |-> "unknown", looked |-> FALSE, drv |-> "none",
            out |-> NoOutcome]

N == Len(films)

Running == {i \in DOMAIN task : task[i].pc \in {"check", "hit", "setup", "scrape", "quit"}}

\* A cacheability test that lets error strings through.
should_cache_keeps_errors(streaming) ==
    /\ streaming # EmptyStr
    /\ ~StartsWith(streaming, <<"Not", "streaming">>)

\* The cacheability test of main.
should_cache(streaming) ==
    /\ streaming # EmptyStr
    /\ ~StartsWith(streaming, <<"Not", "streaming">>)
    /\ ~StartsWith(streaming, <<"Error:">>)

RECURSIVE InsertByIndex(_, _)
InsertByIndex(r, s) ==
    IF s = <<>> THEN <<r>>
    ELSE IF s[Len(s)].index <= r.index THEN Append(s, r)
    ELSE Append(InsertByIndex(r, SubSeq(s, 1, Len(s) - 1)), s[Len(s)])

\* A report that keeps the order of completion.
SortOmitted(s) == s

RECURSIVE SortByIndex(_)
\* results.sort(key=lambda x: x['index']): a stable sort.
SortByIndex(s) ==
    IF s = <<>> THEN <<>>
    ELSE InsertByIndex(s[Len(s)], SortByIndex(SubSeq(s, 1, Len(s) - 1)))

(***************************************************************************)
(* Initial state: main is about to call load_cache.                        *)
(***************************************************************************)
Init ==
    /\ file \in InitialFiles
    /\ cache = Unloaded
    /\ startup = EmptyMap
    /\ persisted = EmptyMap
    /\ pc = "load"
    /\ driver = "none"
    /\ films = <<>>
    /\ task = <<>>
    /\ results = <<>>
    /\ report = <<>>
    /\ exit = "none"
    /\ readers = {}
    /\ updating = <<>>
    /\ warnings = <<>>

(***************************************************************************)
(* The coordinator, up to the submission of the tasks                      *)
(***************************************************************************)
\* cache = load_cache(); cache_size = len(cache)
LoadCache ==
    /\ pc = "load"
    /\ IF LoadRaises(file)
       THEN \* the exception leaves main, which has no handler around the call
            /\ pc' = "done"
            /\ exit' = "load_raised"
            /\ UNCHANGED <<cache, startup, persisted, readers>>
       ELSE /\ cache' = load_cache(file)
            /\ startup' = Entries(cache')
            /\ persisted' = Entries(cache')
            /\ readers' = readers \cup {"coordinator"}
            /\ pc' = "setup"
            /\ exit' = exit
    /\ UNCHANGED <<file, driver, films, task, results, report, updating, warnings>>

\* driver = setup_driver(); if not driver: return
SetupMain ==
    /\ pc = "setup"
    /\ \/ /\ driver' = "live"
          /\ pc' = "discover"
          /\ exit' = exit
       \/ /\ driver' = "none"
          /\ pc' = "done"
          /\ exit' = "no_driver"
    /\ UNCHANGED <<file, cache, startup, persisted, films, task, results, report,
                   readers, updating, warnings>>

FilmLists == UNION {[1..n -> FilmSet] : n \in 1..MaxFilms}

\* A main that saves the cache before its early return.
DiscoverSavesOnAbort(lists) ==
    /\ pc = "discover"
    /\ \/ \E fs \in lists :
             /\ films' = fs
             /\ task' = [i \in 1..Len(fs) |-> NewTask]
             /\ pc' = "submit"
             /\ exit' = exit
             /\ file' = file
       \/ /\ pc' = "cleanup"
          /\ exit' \in {"no_films", "discover_raised"}
          /\ file' = FileOf(JsonDump(cache))
          /\ UNCHANGED <<films, task>>
    /\ UNCHANGED <<cache, startup, persisted, driver, results, report,
                   readers, updating, warnings>>

\* films = scrape_letterboxd_popular(driver), with the two early returns
DiscoverFrom(lists) ==
    /\ pc = "discover"
    /\ \/ \E fs \in lists :
             /\ films' = fs
             /\ task' = [i \in 1..Len(fs) |-> NewTask]
             /\ pc' = "submit"
             /\ exit' = exit
       \/ /\ pc' = "cleanup"
          /\ exit' \in {"no_films", "discover_raised"}
          /\ UNCHANGED <<films, task>>
    /\ UNCHANGED <<file, cache, startup, persisted, driver, results, report,
                   readers, updating, warnings>>

Discover == DiscoverFrom(FilmLists)

\* executor.submit(scrape_film_worker, i + 1, film, cache), in list order
Submit ==
    /\ pc = "submit"
    /\ \E i \in 1..N :
          /\ task[i].pc = "new"
          /\ \A j \in 1..(i - 1) : task[j].pc # "new"
          /\ task' = [task EXCEPT ![i].pc = "queued"]
          /\ pc' = IF i = N THEN "collect" ELSE "submit"
    /\ UNCHANGED <<file, cache, startup, persisted, driver, films, results, report,
                   exit, readers, updating, warnings>>

(***************************************************************************)
(* The pool and scrape_film_worker                                         *)
(***************************************************************************)
\* A pool that starts one thread too many.
PoolOffByOne == Cardinality(Running) <= max_workers

\* ThreadPoolExecutor(max_workers=3): a thread is free to take a work item
PoolHasIdleWorker == Cardinality(Running) < max_workers

\* A pool thread takes the oldest queued work item.
StartTask(i) ==
    /\ pc \notin {"crashed"}
    /\ task[i].pc = "queued"
    /\ \A j \in 1..(i - 1) : task[j].pc \notin {"new", "queued"}
    /\ PoolHasIdleWorker
    /\ task' = [task EXCEPT ![i].pc = "check"]
    /\ UNCHANGED <<file, cache, startup, persisted, pc, driver, films, results,
                   report, exit, readers, updating, warnings>>

\* if film['url'] in cache:
CheckCache(i) ==
    /\ pc \notin {"crashed"}
    /\ task[i].pc = "check"
    /\ readers' = readers \cup {"worker"}
    /\ task' = IF Contains(cache, films[i].url)
               THEN [task EXCEPT ![i].pc = "hit", ![i].hit = "hit"]
               ELSE [task EXCEPT ![i].pc = "setup", ![i].hit = "miss"]
    /\ UNCHANGED <<file, cache, startup, persisted, pc, driver, films, results,
                   report, exit, updating, warnings>>

\* The value or the exception of cache[film['url']]['streaming'].
ReadStreaming(c, i, film) ==
    IF c.kind # "dict" THEN Raised(TypeErrorMsg)
    ELSE IF "streaming" \notin DOMAIN c.map[film.url] THEN Raised(KeyErrorMsg)
    ELSE Returned(Result(i, film, c.map[film.url].streaming, TRUE))

\* return {..., 'streaming': cache[film['url']]['streaming'], 'cached': True}
ReadEntry(i) ==
    /\ pc \notin {"crashed"}
    /\ task[i].pc = "hit"
    /\ readers' = readers \cup {"worker"}
    /\ task' = [task EXCEPT ![i].pc = "done",
                            ![i].out = ReadStreaming(cache, i, films[i])]
    /\ UNCHANGED <<file, cache, startup, persisted, pc, driver, films, results,
                   report, exit, updating, warnings>>

\* driver = setup_driver(); if not driver: return the error result
SetupDriver(i) ==
    /\ pc \notin {"crashed"}
    /\ task[i].pc = "setup"
    /\ \/ task' = [task EXCEPT ![i].pc = "scrape", ![i].drv = "live"]
       \/ task' = [task EXCEPT ![i].pc = "done", ![i].drv = "failed",
                               ![i].out = Returned(Result(i, films[i], ErrNoDriver, FALSE))]
    /\ UNCHANGED <<file, cache, startup, persisted, pc, driver, films, results,
                   report, exit, readers, updating, warnings>>

\* A worker that returns an error result without reaching driver.quit().
ScrapeLeaksOnError(i, outcomes) ==
    /\ pc \notin {"crashed"}
    /\ task[i].pc = "scrape"
    /\ \E s \in outcomes :
          task' = [task EXCEPT ![i].pc = IF IsError(s) THEN "done" ELSE "quit",
                               ![i].looked = TRUE,
                               ![i].out = Returned(Result(i, films[i], s, FALSE))]
    /\ UNCHANGED <<file, cache, startup, persisted, pc, driver, films, results,
                   report, exit, readers, updating, warnings>>

\* streaming_info = scrape_streaming_info(driver, film['url'])
ScrapeWith(i, outcomes) ==
    /\ pc \notin {"crashed"}
    /\ task[i].pc = "scrape"
    /\ \E s \in outcomes :
          task' = [task EXCEPT ![i].pc = "quit", ![i].looked = TRUE,
                               ![i].out = Returned(Result(i, films[i], s, FALSE))]
    /\ UNCHANGED <<file, cache, startup, persisted, pc, driver, films, results,
                   report, exit, readers, updating, warnings>>

Scrape(i) == ScrapeWith(i, ScrapeOutcomes)

NewEntry(r) == [title |-> r.title, streaming |-> r.streaming]

\* A worker that writes its own result to the cache before it returns.
QuitAndCache(i) ==
    /\ pc \notin {"crashed"}
    /\ task[i].pc = "quit"
    /\ task' = [task EXCEPT ![i].pc = "done", ![i].drv = "quit"]
    /\ IF should_cache(task[i].out.val.streaming) /\ cache.kind = "dict"
       THEN /\ cache' = DictCache(Put(cache.map, films[i].url, NewEntry(task[i].out.val)))
            /\ file' = FileOf(JsonDump(cache'))
            /\ updating' = Append(updating, "worker")
       ELSE UNCHANGED <<cache, file, updating>>
    /\ UNCHANGED <<startup, persisted, pc, driver, films, results, report, exit, readers, warnings>>

\* A worker that returns without calling driver.quit().
QuitOmitted(i) ==
    /\ pc \notin {"crashed"}
    /\ task[i].pc = "quit"
    /\ task' = [task EXCEPT ![i].pc = "done"]
    /\ UNCHANGED <<file, cache, startup, persisted, pc, driver, films, results,
                   report, exit, readers, updating, warnings>>

\* A pool thread that dies on the exception without completing the future.
QuitLosesFuture(i) ==
    /\ pc \notin {"crashed"}
    /\ task[i].pc = "quit"
    /\ \/ task' = [task EXCEPT ![i].pc = "done", ![i].drv = "quit"]
       \/ task' = [task EXCEPT ![i].pc = "lost", ![i].drv = "quit_failed",
                               ![i].out = Raised(QuitErrorMsg)]
    /\ UNCHANGED <<file, cache, startup, persisted, pc, driver, films, results,
                   report, exit, readers, updating, warnings>>

\* finally: driver.quit(), which returns or raises in place of the result
Quit(i) ==
    /\ pc \notin {"crashed"}
    /\ task[i].pc = "quit"
    /\ \/ task' = [task EXCEPT ![i].pc = "done", ![i].drv = "quit"]
       \/ task' = [task EXCEPT ![i].pc = "done", ![i].drv = "quit_failed",
                               ![i].out = Raised(QuitErrorMsg)]
    /\ UNCHANGED <<file, cache, startup, persisted, pc, driver, films, results,
                   report, exit, readers, updating, warnings>>

(***************************************************************************)
(* The coordinator: collecting, saving, reporting                          *)
(***************************************************************************)
\* One iteration of `for future in as_completed(futures)`, up to the call of
\* save_cache (or to the end of the iteration when nothing is saved).
Collect(i) ==
    /\ pc = "collect"
    /\ task[i].pc = "done"
    /\ task' = [task EXCEPT ![i].pc = "collected"]
    /\ LET o == task[i].out
           caught(rs, msg) == Append(rs, ErrorResult(i, films[i], msg))
       IN IF o.kind = "exc"
          THEN \* future.result() raises: the except branch
               /\ results' = caught(results, o.msg)
               /\ UNCHANGED <<cache, pc, updating>>
          ELSE LET r == o.val
                   appended == Append(results, r)
               IN IF (~r.cached) /\ should_cache(r.streaming)
                  THEN IF cache.kind = "dict"
                       THEN /\ results' = appended
                            /\ cache' = DictCache(Put(cache.map, r.url, NewEntry(r)))
                            /\ updating' = Append(updating, "coordinator")
                            /\ pc' = "save_open"
                       ELSE \* cache[result['url']] = ... raises TypeError
                            \* after the append: the except branch
                            /\ results' = caught(appended, TypeErrorMsg)
                            /\ UNCHANGED <<cache, pc, updating>>
                  ELSE /\ results' = appended
                       /\ UNCHANGED <<cache, pc, updating>>
    /\ UNCHANGED <<file, startup, persisted, driver, films, report, exit, readers, warnings>>

\* print(f"Warning: Could not save cache: {e}"), with the ordinal of the
\* result whose update was being saved (the last one appended; 0 when
\* save_cache is called outside the loop).
SaveWarning ==
    [what |-> "save",
     index |-> IF results = <<>> THEN 0 ELSE results[Len(results)].index]

\* The thread has returned from save_cache.
Leave(seq, thread) ==
    LET first == CHOOSE k \in 1..Len(seq) :
                    seq[k] = thread /\ \A j \in 1..(k - 1) : seq[j] # thread
    IN SubSeq(seq, 1, first - 1) \o SubSeq(seq, first + 1, Len(seq))

\* A save_cache whose IOError ends the collection loop.
SaveOpenAborts ==
    /\ pc = "save_open"
    /\ \/ /\ file' = FileOf(<<>>)
          /\ pc' = "save_write"
          /\ updating' = updating
          /\ warnings' = warnings
       \/ /\ file' = file
          /\ pc' = "cleanup"
          /\ updating' = Leave(updating, "coordinator")
          /\ warnings' = Append(warnings, SaveWarning)
    /\ UNCHANGED <<cache, startup, persisted, driver, films, task, results, report,
                   exit, readers>>

\* save_cache: open(CACHE_FILE, 'w') truncates the file, or raises IOError,
\* which save_cache catches.
SaveOpen ==
    /\ pc = "save_open"
    /\ \/ /\ file' = FileOf(<<>>)
          /\ pc' = "save_write"
          /\ updating' = updating
          /\ warnings' = warnings
       \/ /\ file' = file
          /\ pc' = "collect"
          /\ updating' = Leave(updating, "coordinator")
          /\ warnings' = Append(warnings, SaveWarning)
    /\ UNCHANGED <<cache, startup, persisted, driver, films, task, results, report,
                   exit, readers>>

Prefixes(text) == {SubSeq(text, 1, n) : n \in 0..Len(text)}

\* save_cache: json.dump(cache, f) and the close of the file, or an IOError
\* part of the way, which save_cache catches.
SaveWrite ==
    /\ pc = "save_write"
    /\ readers' = readers \cup {"coordinator"}
    /\ \/ /\ file' = FileOf(JsonDump(cache))
          /\ persisted' = Entries(cache)
          /\ warnings' = warnings
       \/ /\ \E t \in Prefixes(JsonDump(cache)) \ {JsonDump(cache)} : file' = FileOf(t)
          /\ persisted' = persisted
          /\ warnings' = Append(warnings, SaveWarning)
    /\ pc' = "collect"
    /\ updating' = Leave(updating, "coordinator")
    /\ UNCHANGED <<cache, startup, driver, films, task, results, report, exit>>

AllCollected == \A i \in 1..N : task[i].pc = "collected"

\* cached_count = sum(1 for r in results if r.get('cached', False))
cached_count(rs) == Cardinality({k \in 1..Len(rs) : rs[k].cached})

\* fetched_count = len(results) - cached_count
fetched_count(rs) == Len(rs) - cached_count(rs)

\* The end of the loop and of the with block, results.sort and the report.
Report ==
    /\ pc = "collect"
    /\ AllCollected
    /\ report' = SortByIndex(results)
    /\ exit' = "reported"
    /\ pc' = "cleanup"
    /\ UNCHANGED <<file, cache, startup, persisted, driver, films, task, results,
                   readers, updating, warnings>>

\* finally: driver.quit(), which returns or raises out of main
Cleanup ==
    /\ pc = "cleanup"
    /\ driver' \in {"quit", "quit_failed"}
    /\ pc' = "done"
    /\ UNCHANGED <<file, cache, startup, persisted, films, task, results, report,
                   exit, readers, updating, warnings>>

\* The process stops. A file being written keeps what reached the disk.
Crash ==
    /\ pc \notin {"done", "crashed"}
    /\ pc' = "crashed"
    /\ IF pc = "save_write"
       THEN \E t \in Prefixes(JsonDump(cache)) : file' = FileOf(t)
       ELSE file' = file
    /\ UNCHANGED <<cache, startup, persisted, driver, films, task, results, report,
                   exit, readers, updating, warnings>>

Worker(i) ==
    \/ StartTask(i)
    \/ CheckCache(i)
    \/ ReadEntry(i)
    \/ SetupDriver(i)
    \/ Scrape(i)
    \/ Quit(i)

Next ==
    \/ LoadCache
    \/ SetupMain
    \/ Discover
    \/ Submit
    \/ \E i \in DOMAIN task : Worker(i)
    \/ \E i \in DOMAIN task : Collect(i)
    \/ SaveOpen
    \/ SaveWrite
    \/ Report
    \/ Cleanup
    \/ Crash

Spec == Init /\ [][Next]_vars

(***************************************************************************)
(* The pool under load: more films than pool threads, no cache file at     *)
(* startup, a lookup that finds a service.                                 *)
(***************************************************************************)
PoolLists == {[i \in 1..n |-> IF i % 2 = 1 THEN FilmA ELSE FilmB] : n \in 1..PoolFilms}

PoolFiles == {Missing}

InitPool ==
    /\ file \in PoolFiles
    /\ cache = Unloaded
    /\ startup = EmptyMap
    /\ persisted = EmptyMap
    /\ pc = "load"
    /\ driver = "none"
    /\ films = <<>>
    /\ task = <<>>
    /\ results = <<>>
    /\ report = <<>>
    /\ exit = "none"
    /\ readers = {}
    /\ updating = <<>>
    /\ warnings = <<>>

DiscoverPool == DiscoverFrom(PoolLists)

ScrapePool(i) == ScrapeWith(i, {Netflix})

WorkerPool(i) ==
    \/ StartTask(i)
    \/ CheckCache(i)
    \/ ReadEntry(i)
    \/ SetupDriver(i)
    \/ ScrapePool(i)
    \/ Quit(i)

NextPool ==
    \/ LoadCache
    \/ SetupMain
    \/ DiscoverPool
    \/ Submit
    \/ \E i \in DOMAIN task : WorkerPool(i)
    \/ \E i \in DOMAIN task : Collect(i)
    \/ SaveOpen
    \/ SaveWrite
    \/ Report
    \/ Cleanup

SpecPool == InitPool /\ [][NextPool]_vars

(***************************************************************************)
(* The run under fair scheduling: the process is not killed, every call    *)
(* returns or raises, main runs on, and every pool thread that has work    *)
(* gets to run. The cache file is absent, holds one entry (complete or     *)
(* not) or holds an array, and a lookup finds a service or fails.          *)
(***************************************************************************)
LiveLists == {[i \in 1..n |-> IF i % 2 = 1 THEN FilmA ELSE FilmB] : n \in 1..LiveFilms}

LiveFiles ==
    { Missing,
      FileOf(JsonDump(DictCache(Put(EmptyMap, "u1", StaleEntry)))),
      FileOf(JsonDump(DictCache(Put(EmptyMap, "u1", IncompleteEntry)))),
      FileOf(JsonDump(ListCache(<<"u1">>))) }

InitLive ==
    /\ file \in LiveFiles
    /\ cache = Unloaded
    /\ startup = EmptyMap
    /\ persisted = EmptyMap
    /\ pc = "load"
    /\ driver = "none"
    /\ films = <<>>
    /\ task = <<>>
    /\ results = <<>>
    /\ report = <<>>
    /\ exit = "none"
    /\ readers = {}
    /\ updating = <<>>
    /\ warnings = <<>>

DiscoverLive == DiscoverFrom(LiveLists)

\* The steps of main.
Coordinator ==
    \/ LoadCache
    \/ SetupMain
    \/ DiscoverLive
    \/ Submit
    \/ \E i \in DOMAIN task : Collect(i)
    \/ SaveOpen
    \/ SaveWrite
    \/ Report
    \/ Cleanup

ScrapeLive(i) == ScrapeWith(i, {Netflix, ErrTimeout})

\* The steps of the task of ordinal i, once it exists.
WorkerLive(i) ==
    /\ i \in DOMAIN task
    /\ \/ StartTask(i)
       \/ CheckCache(i)
       \/ ReadEntry(i)
       \/ SetupDriver(i)
       \/ ScrapeLive(i)
       \/ Quit(i)

NextLive ==
    \/ Coordinator
    \/ \E i \in 1..LiveFilms : WorkerLive(i)

SpecLive ==
    /\ InitLive
    /\ [][NextLive]_vars
    /\ WF_vars(Coordinator)
    /\ \A i \in 1..LiveFilms : WF_vars(WorkerLive(i))

(***************************************************************************)
(* save_cache followed by load_cache, on every mapping of up to two        *)
(* identities, over a file that is absent or holds an older mapping.       *)
(***************************************************************************)
EntrySet == {[title |-> t, streaming |-> a] : t \in {"A", "B"}, a \in {Netflix, Mubi}}

Mappings == UNION {[D -> EntrySet] : D \in SUBSET Urls}

\* The caller is about to call save_cache(cache).
InitRoundTrip ==
    /\ file \in {Missing, FileOf(JsonDump(DictCache(Put(EmptyMap, "u1", StaleEntry))))}
    /\ cache \in {DictCache(m) : m \in Mappings}
    /\ startup = EmptyMap
    /\ persisted = EmptyMap
    /\ pc = "save_open"
    /\ driver = "none"
    /\ films = <<>>
    /\ task = <<>>
    /\ results = <<>>
    /\ report = <<>>
    /\ exit = "none"
    /\ readers = {}
    /\ updating = <<"coordinator">>
    /\ warnings = <<>>

\* Back from save_cache, the caller calls load_cache().
Reload ==
    /\ pc = "collect"
    /\ ~LoadRaises(file)
    /\ cache' = load_cache(file)
    /\ pc' = "reloaded"
    /\ UNCHANGED <<file, startup, persisted, driver, films, task, results, report,
                   exit, readers, updating, warnings>>

NextRoundTrip ==
    \/ SaveOpen
    \/ SaveWrite
    \/ Reload

SpecRoundTrip == InitRoundTrip /\ [][NextRoundTrip]_vars

(***************************************************************************)
(* Properties                                                              *)
(***************************************************************************)
Indices(s) == {s[k].index : k \in 1..Len(s)}

CountIndex(s, n) == Cardinality({k \in 1..Len(s) : s[k].index = n})

\* An entry of mapping m that the mapping loaded at startup did not hold.
WrittenThisRun(m, u) == u \notin DOMAIN startup \/ m[u] # startup[u]

\* The entries a load of the cache file would return now.
OnDisk == Entries(load_cache(file))

\* C1: when a run that discovered N >= 1 items reaches the report, the
\* result list holds exactly N results, exactly one for each ordinal 1..N.
C1_OneResultPerOrdinal ==
    exit = "reported" =>
        /\ Len(results) = N
        /\ \A n \in 1..N : CountIndex(results, n) = 1

\* C2: whatever the order in which the tasks complete, the report lists the
\* results in ascending ordinal position and covers the ordinals 1..N.
C2_ReportInDiscoveryOrder ==
    exit = "reported" =>
        /\ \A j, k \in 1..Len(report) : j < k => report[j].index <= report[k].index
        /\ Indices(report) = 1..N

\* A run whose tasks were collected out of discovery order has reported.
C2_Witness ==
    /\ exit = "reported"
    /\ \E j, k \in 1..Len(results) : j < k /\ results[j].index > results[k].index

\* C3: no cache entry written during the run, in memory or on disk, has an
\* availability that is an error value.
C3_NoErrorEntry ==
    cache # Unloaded =>
        /\ \A u \in DOMAIN Entries(cache) :
              WrittenThisRun(Entries(cache), u) => ~IsError(Entries(cache)[u].streaming)
        /\ \A u \in DOMAIN OnDisk :
              WrittenThisRun(OnDisk, u) => ~IsError(OnDisk[u].streaming)

\* A run has reported a captured fetch failure, a failed driver creation and
\* an exception of a task, on a cache that accepts writes, and also wrote
\* an entry.
C3_Witness ==
    /\ exit = "reported"
    /\ cache.kind = "dict"
    /\ \E k \in 1..Len(results) :
          /\ IsError(results[k].streaming)
          /\ results[k].url \notin DOMAIN cache.map
    /\ \E u \in DOMAIN cache.map : u \notin DOMAIN startup

\* C4: a lookup that returns the no-streaming-info message never creates a
\* cache entry: no entry written during the run holds that message.
C4_NoInfoNeverCached ==
    \A u \in DOMAIN Entries(cache) :
        WrittenThisRun(Entries(cache), u) => Entries(cache)[u].streaming # NoInfo

\* C5: a task that found its film's identity in the cache creates no driver
\* and performs no lookup, and returns a result with cached = true and the
\* availability of the cache entry.
C5_CacheShortCircuit ==
    [][\A i \in DOMAIN task :
          (task[i].hit = "hit" /\ cache.kind = "dict") =>
             /\ task'[i].drv = "none"
             /\ ~task'[i].looked
             /\ (task[i].pc = "hit" /\ task'[i].pc = "done") =>
                   /\ task'[i].out.kind = "value"
                   /\ task'[i].out.val.cached
                   /\ "streaming" \in DOMAIN cache.map[films[i].url]
                   /\ task'[i].out.val.streaming = cache.map[films[i].url].streaming]_vars

Lookups(u) == {i \in DOMAIN task : films[i].url = u /\ task[i].looked}

\* C6: for an identity that is not in the cache at startup, the lookup is
\* performed at most once during the run, and the results of the items that
\* share the identity carry the same availability.
C6_OneLookupPerIdentity ==
    \A u \in Urls :
        u \notin DOMAIN startup =>
           /\ Cardinality(Lookups(u)) <= 1
           /\ \A j, k \in 1..Len(results) :
                 (results[j].url = u /\ results[k].url = u
                    /\ results[j].index # results[k].index)
                    => results[j].streaming = results[k].streaming

\* C7: the number of tasks that have started and not yet completed is at
\* most 3.
C7_ConcurrencyBound == Cardinality(Running) <= 3

\* Three tasks are running while a fourth waits in the queue.
C7_Witness ==
    /\ Cardinality(Running) = 3
    /\ \E i \in DOMAIN task : task[i].pc = "queued"

\* C8: after a crash at any step, loading the cache file yields every entry
\* that was loaded at startup and every entry persisted by a completed save.
C8_CrashKeepsPersisted ==
    pc = "crashed" =>
        \A u \in DOMAIN persisted : u \in DOMAIN OnDisk /\ OnDisk[u] = persisted[u]

\* C9: no step of a pool task reads the cache object.
C9_NoReadInPoolTask == "worker" \notin readers

\* C10: at most one cache update-and-persist is in progress, and the thread
\* performing it is the coordinator, inside its save steps, never a pool
\* task.
C10_SerializedMutation ==
    /\ Len(updating) <= 1
    /\ \A k \in 1..Len(updating) : updating[k] = "coordinator"
    /\ updating # <<>> => pc \in {"save_open", "save_write", "crashed"}

\* The coordinator is writing the file while a pool task is running.
C10_Witness ==
    /\ pc = "save_write"
    /\ updating = <<"coordinator">>
    /\ Running # {}

Finished(i) == task[i].pc \in {"done", "collected"}

\* C11: scrape_film_worker never raises to the coordinator: the future of
\* every task holds a result value, never an exception.
C11_WorkerNeverRaises ==
    \A i \in DOMAIN task : Finished(i) => task[i].out.kind = "value"

\* C12: a worker holds a driver only between its creation and the call of
\* driver.quit() inside the same invocation, so no finished task has a live
\* driver, and main's driver is not live once main has ended.
C12_DriversReleased ==
    /\ \A i \in DOMAIN task :
          /\ task[i].drv = "live" => task[i].pc \in {"scrape", "quit"}
          /\ Finished(i) => task[i].drv # "live"
    /\ pc = "done" => driver # "live"

\* The run has ended with main's driver quit, after a task whose lookup
\* returned an error released its driver and another one failed to.
C12_Witness ==
    /\ pc = "done"
    /\ driver = "quit"
    /\ \E i \in DOMAIN task :
          /\ task[i].drv = "quit"
          /\ task[i].out.kind = "value"
          /\ IsError(task[i].out.val.streaming)
    /\ \E i \in DOMAIN task : task[i].drv = "quit_failed"

\* C13: a save_cache that fails prints its warning and returns to the loop
\* with the in-memory cache and the result list as they were: the entry
\* just written stays, its result is in the list exactly once, and a run
\* that had a failed save still ends with the report of all collected tasks.
C13_SaveFailureContained ==
    [][/\ warnings' # warnings =>
             /\ cache' = cache
             /\ results' = results
             /\ pc' = "collect"
             /\ LET r == results[Len(results)]
                IN r.url \in DOMAIN Entries(cache') /\ Entries(cache')[r.url] = NewEntry(r)
       /\ \A k \in 1..Len(warnings') :
             /\ CountIndex(results', warnings'[k].index) = 1
             /\ films'[warnings'[k].index].url \in DOMAIN Entries(cache')
             /\ pc' = "done" => exit' = "reported"
             /\ exit' = "reported" => \A i \in DOMAIN task' : task'[i].pc = "collected"]_vars

\* The save of the first collected result failed, and the run went on to
\* collect the other task and to report.
C13_Witness ==
    /\ exit = "reported"
    /\ Len(results) = 2
    /\ warnings # <<>>
    /\ warnings[1].index = results[1].index

Aborted == exit \in {"no_driver", "no_films", "discover_raised"}

\* C14: a run that ends because discovery returned nothing or raised, or
\* because main's driver could not be created, has submitted no task and
\* made no lookup, and no step up to and after the early return changes the
\* loaded cache or the cache file.
C14_AbortLeavesNoTrace ==
    [][/\ (pc \in {"load", "setup", "discover"} \/ Aborted) =>
             /\ file' = file
             /\ cache # Unloaded => cache' = cache
       /\ Aborted' =>
             /\ task' = <<>>
             /\ results' = <<>>
             /\ Entries(cache') = startup']_vars

\* A run with a non-empty cache has ended on an empty discovery.
C14_Witness ==
    /\ pc = "done"
    /\ exit = "no_films"
    /\ startup # EmptyMap
    /\ Entries(cache) = startup

\* C15: once main starts submitting, every task is eventually run to
\* completion and collected, and the run emits the report.
C15_RunCompletes ==
    (pc = "submit") ~> (exit = "reported" /\ \A i \in DOMAIN task : task[i].pc = "collected")

\* A run of two tasks, one of which raised, has reported.
C15_Witness ==
    /\ exit = "reported"
    /\ Len(films) = 2
    /\ \A i \in DOMAIN task : task[i].pc = "collected"
    /\ \E i \in DOMAIN task : task[i].out.kind = "exc"

\* C16: after a save_cache that printed no warning, load_cache returns a
\* mapping equal to the one saved.
C16_RoundTrip ==
    (pc = "reloaded" /\ warnings = <<>>) => cache = DictCache(persisted)

\* A mapping of two entries has been saved and loaded again.
C16_Witness ==
    /\ pc = "reloaded"
    /\ warnings = <<>>
    /\ Cardinality(DOMAIN persisted) = 2
    /\ cache.kind = "dict"

Malformed(f) == f.exists /\ ~JsonLoad(f.text).ok

\* C17: load_cache never raises; it returns the empty mapping when the file
\* is missing, and the empty mapping plus a warning when the content of the
\* file is malformed.
C17_LoadNeverBlocks ==
    /\ exit # "load_raised"
    /\ pc = "setup" =>
          /\ (~file.exists \/ Malformed(file)) => cache = DictCache(EmptyMap)
          /\ Malformed(file) => \E k \in 1..Len(warnings) : warnings[k].what = "load"

Fresh(r) == (~r.cached) /\ should_cache(r.streaming)

\* C18: once the cache is loaded, every entry loaded at startup is in the
\* in-memory cache with its value unchanged, every other entry is the
\* identity, title and availability of a freshly fetched result of this run
\* that passed the cacheability test, and no step removes an entry.
C18_EntriesKeptOrFresh ==
    [][cache' # Unloaded =>
          /\ \A u \in DOMAIN startup' :
                u \in DOMAIN Entries(cache') /\ Entries(cache')[u] = startup'[u]
          /\ \A u \in DOMAIN Entries(cache') \ DOMAIN startup' :
                \E k \in 1..Len(results') :
                   /\ results'[k].url = u
                   /\ Fresh(results'[k])
                   /\ Entries(cache')[u] = NewEntry(results'[k])
          /\ cache # Unloaded => DOMAIN Entries(cache) \subseteq DOMAIN Entries(cache')]_vars

\* The run reported with the entry loaded at startup and an entry of its own.
C18_Witness ==
    /\ exit = "reported"
    /\ startup # EmptyMap
    /\ DOMAIN Entries(cache) # DOMAIN startup
    /\ \A u \in DOMAIN startup : Entries(cache)[u] = startup[u]

DistinctIdentities == \A i, j \in 1..N : i # j => films[i].url # films[j].url

\* C19: when the identities of the films are distinct, a reported result has
\* cached = true exactly when its identity was in the cache loaded at
\* startup, and the two counts of the summary sum to N.
C19_CachedIffAtStartup ==
    (exit = "reported" /\ DistinctIdentities) =>
        /\ \A k \in 1..Len(report) :
              report[k].cached <=> report[k].url \in DOMAIN startup
        /\ cached_count(report) + fetched_count(report) = N

\* The drivers created and not yet quit: main's and the workers'.
LiveDrivers ==
    (IF driver = "live" THEN 1 ELSE 0)
      + Cardinality({i \in DOMAIN task : task[i].drv = "live"})

\* C20: at most 4 drivers are live at any time.
C20_AtMostFourDrivers == LiveDrivers <= 4

\* Main's driver and three workers' drivers are live while a task waits.
C20_Witness ==
    /\ LiveDrivers = 4
    /\ driver = "live"
    /\ \E i \in DOMAIN task : task[i].pc = "queued"
====
